---------------------------- MODULE Spec2Model ----------------------------
(***************************************************************************)
(* A model of enhanced_rir_parser.py (class RIRDataParser): the line       *)
(* normalizer (parse_rir_line, process_rir_data), the range conversion and *)
(* insertion (insert_entries_to_db), the rebuild (build_table) against the *)
(* SQLite tables ipv4_ranges / ipv6_ranges / metadata, and the lookups     *)
(* (lookup_ip, lookup_ipv4, lookup_ipv6).                                  *)
(*                                                                         *)
(* Texts are TLA+ strings.  Python's parsers (int(), ipaddress.*,          *)
(* datetime.strptime, str.upper) are tables over the finite set of texts   *)
(* that occur in the modelled input.  Python and SQLite integers exceed    *)
(* the range of TLC's integers, so an address integer v is the pair        *)
(* [hi, lo] with v = hi * 65536 + lo and 0 <= lo < 65536.                  *)
(***************************************************************************)
EXTENDS Integers, Sequences, FiniteSets, TLC

VARIABLES
    ipv4_ranges,      \* committed rows of table ipv4_ranges, in rowid order
    ipv6_ranges,      \* committed rows of table ipv6_ranges, in rowid order
    metadata,         \* committed rows of table metadata: key -> value
    pc,               \* position of the build_table call
    rir_i,            \* build_table: index of the registry the loop is at
    total_entries,    \* build_table: local total_entries
    successful_rirs,  \* build_table: local successful_rirs
    downloaded,       \* what download_rir_data returned to this build, per registry
    pub,              \* tables and inputs of the last build whose loop completed
    repeat,           \* set when a build completes on the inputs of the previous one
    lookup,           \* the lookup_ip call being served, if any
    lines,            \* process_rir_data: the batch of lines
    entries,          \* process_rir_data: the returned entries
    processed         \* process_rir_data has returned

vars == <<ipv4_ranges, ipv6_ranges, metadata, pc, rir_i, total_entries,
          successful_rirs, downloaded, pub, repeat, lookup,
          lines, entries, processed>>

-----------------------------------------------------------------------------
(* Values *)

\* Python's None, and a value that is not None.
None == <<>>

Some(x) == <<x>>

\* Base of the two-digit representation of Python / SQLite integers.
Base == 65536

Big(h, l) == [hi |-> h, lo |-> l]

\* x + n for a pair x and a (small) integer n, as Python's unbounded addition.
BigAdd(x, n) ==
    LET t == x.lo + n
    IN  [hi |-> x.hi + (t \div Base), lo |-> t % Base]

\* x - y as a pair (the SQL expression end_ip - start_ip).
BigSub(x, y) ==
    LET t == x.lo - y.lo
    IN  [hi |-> (x.hi - y.hi) + (t \div Base), lo |-> t % Base]

BigLeq(x, y) == x.hi < y.hi \/ (x.hi = y.hi /\ x.lo <= y.lo)

BigLt(x, y) == x.hi < y.hi \/ (x.hi = y.hi /\ x.lo < y.lo)

\* 2^32 - 1, the last address of the IPv4 space.
MaxIPv4 == Big(Base - 1, Base - 1)

-----------------------------------------------------------------------------
(* Python's text parsers, as tables over the texts of the model *)

\* int(text): [ok, val]; ok = FALSE is ValueError.
int(text) ==
    CASE text = "256"   -> [ok |-> TRUE, val |-> 256]
      [] text = "512"   -> [ok |-> TRUE, val |-> 512]
      [] text = "65536" -> [ok |-> TRUE, val |-> 65536]
      [] text = "0"     -> [ok |-> TRUE, val |-> 0]
      [] text = "-256"  -> [ok |-> TRUE, val |-> -256]
      [] text = "32"    -> [ok |-> TRUE, val |-> 32]
      [] text = "48"    -> [ok |-> TRUE, val |-> 48]
      [] text = "129"   -> [ok |-> TRUE, val |-> 129]
      [] OTHER          -> [ok |-> FALSE, val |-> 0]

\* ipaddress.IPv4Address(text): the four octets, or <<>> for AddressValueError.
IPv4Address(text) ==
    CASE text = "8.8.8.0"         -> <<8, 8, 8, 0>>
      [] text = "8.8.8.8"         -> <<8, 8, 8, 8>>
      [] text = "8.8.0.0"         -> <<8, 8, 0, 0>>
      [] text = "8.8.9.9"         -> <<8, 8, 9, 9>>
      [] text = "8.7.255.255"     -> <<8, 7, 255, 255>>
      [] text = "1.0.0.0"         -> <<1, 0, 0, 0>>
      [] text = "255.255.255.0"   -> <<255, 255, 255, 0>>
      [] text = "255.255.255.255" -> <<255, 255, 255, 255>>
      [] OTHER                    -> <<>>

\* ipaddress.IPv6Address(text): the eight 16-bit groups, or <<>> for
\* AddressValueError.
IPv6Address(text) ==
    CASE text = "2001:db8::"     -> <<8193, 3512, 0, 0, 0, 0, 0, 0>>
      [] text = "2001:db8::1"    -> <<8193, 3512, 0, 0, 0, 0, 0, 1>>
      [] text = "2001:DB8::1"    -> <<8193, 3512, 0, 0, 0, 0, 0, 1>>
      [] text = "2001:db8:0:1::" -> <<8193, 3512, 0, 1, 0, 0, 0, 0>>
      [] text = "2001:db8:1::"   -> <<8193, 3512, 1, 0, 0, 0, 0, 0>>
      [] text = "2a01:e00::"     -> <<10753, 3584, 0, 0, 0, 0, 0, 0>>
      [] text = "2a01:e00::1"    -> <<10753, 3584, 0, 0, 0, 0, 0, 1>>
      [] text = "2a02:e00::1"    -> <<10754, 3584, 0, 0, 0, 0, 0, 1>>
      [] OTHER                   -> <<>>

\* int(ipaddress.IPv4Address(ip_str)); raises when the text does not parse.
ip_to_int(ip_str) ==
    LET o == IPv4Address(ip_str)
    IN  Big(o[1] * 256 + o[2], o[3] * 256 + o[4])

\* datetime.strptime(date, '%Y%m%d') succeeds.
strptime_ok(date) == date \in {"20140328", "20200101"}

\* str.upper()
upper(text) ==
    CASE text = "us" -> "US"
      [] text = "fr" -> "FR"
      [] text = "zA" -> "ZA"
      [] OTHER       -> text

\* str.startswith('#')
startswith_hash(text) == text \in {"#", "# comment", "#arin"}

-----------------------------------------------------------------------------
(* Lines.  A line of registry text is its leading whitespace followed by   *)
(* its '|'-separated fields: the text is ws \o fields[1] \o "|" \o ... .   *)
(* The blank line has the single field "".                                 *)

Line(ws, fields) == [ws |-> ws, fields |-> fields]

\* line.startswith('#')
line_startswith_hash(line) == line.ws = "" /\ startswith_hash(line.fields[1])

\* line.strip() (no modelled line has trailing whitespace)
strip(line) == Line("", line.fields)

\* line.strip() is the empty string
is_empty(line) == line.ws = "" /\ line.fields = <<"">>

\* text.split('|')
split(line) == line.fields

\* parse_rir_line: Some(the entry dict), or None.
parse_rir_line(line) ==
    IF line_startswith_hash(line) \/ is_empty(strip(line)) THEN None
    ELSE LET fields == split(strip(line)) IN
         IF Len(fields) < 7 THEN None
         ELSE LET cc == fields[2]
                  type_field == fields[3]
                  date == fields[6]
              IN  IF cc = "*" \/ Len(cc) # 2 THEN None
                  ELSE IF type_field \notin {"ipv4", "ipv6"} THEN None
                  ELSE Some([registry     |-> fields[1],
                             country_code |-> upper(cc),
                             type         |-> type_field,
                             start        |-> fields[4],
                             value        |-> fields[5],
                             date         |-> IF date # "" /\ Len(date) = 8
                                                 /\ ~strptime_ok(date)
                                              THEN "" ELSE date,
                             status       |-> fields[7]])

\* process_rir_data: data is the text already cut at '\n' into lines.
RECURSIVE process_rir_data(_, _)
process_rir_data(data, rir_name) ==
    IF data = <<>> THEN <<>>
    ELSE LET entry == parse_rir_line(Head(data))
             rest  == process_rir_data(Tail(data), rir_name)
         IN  IF entry # None
             THEN <<[rir |-> rir_name] @@ entry[1]>> \o rest
             ELSE rest

-----------------------------------------------------------------------------
(* insert_entries_to_db: the rows one entry contributes *)

\* The IPv4 branch: <<row>>, or <<>> when int() or ip_to_int() raises.
ipv4_row(entry) ==
    LET num == int(entry.value) IN
    IF ~num.ok \/ IPv4Address(entry.start) = <<>> THEN <<>>
    ELSE LET num_ips  == num.val
             start_ip == ip_to_int(entry.start)
             end_ip   == BigAdd(start_ip, num_ips - 1)
         IN  <<[start_ip       |-> start_ip,
                end_ip         |-> end_ip,
                country_code   |-> entry.country_code,
                rir            |-> entry.rir,
                date_allocated |-> entry.date,
                status         |-> entry.status]>>

\* The IPv6 branch: <<row>>, or <<>> when int() raises.
ipv6_row(entry) ==
    LET prefix == int(entry.value) IN
    IF ~prefix.ok THEN <<>>
    ELSE <<[network        |-> entry.start,
            prefix_length  |-> prefix.val,
            country_code   |-> entry.country_code,
            rir            |-> entry.rir,
            date_allocated |-> entry.date,
            status         |-> entry.status]>>

\* The list ipv4_entries after the loop over entries.
RECURSIVE ipv4_entries(_)
ipv4_entries(es) ==
    IF es = <<>> THEN <<>>
    ELSE (IF Head(es).type = "ipv4" THEN ipv4_row(Head(es)) ELSE <<>>)
         \o ipv4_entries(Tail(es))

\* The list ipv6_entries after the loop over entries.
RECURSIVE ipv6_entries(_)
ipv6_entries(es) ==
    IF es = <<>> THEN <<>>
    ELSE (IF Head(es).type = "ipv6" THEN ipv6_row(Head(es)) ELSE <<>>)
         \o ipv6_entries(Tail(es))

-----------------------------------------------------------------------------
(* lookup_ipv4 *)

\* The rows the WHERE clause start_ip <= ? AND end_ip >= ? keeps.
ipv4_where(table, ip_int) ==
    {i \in 1..Len(table) :
        BigLeq(table[i].start_ip, ip_int) /\ BigLeq(ip_int, table[i].end_ip)}

\* The ORDER BY expression end_ip - start_ip of row i.
ipv4_order_key(table, i) == BigSub(table[i].end_ip, table[i].start_ip)

\* LIMIT 1 with the ORDER BY clause left out: any kept row may come first.
ipv4_select_unordered(table, ip_int) == ipv4_where(table, ip_int)

\* ORDER BY end_ip - start_ip LIMIT 1: the rows fetchone() may return.  SQL
\* leaves the order among equal keys open, so every row with the least key
\* is a possible outcome.
ipv4_select(table, ip_int) ==
    LET kept == ipv4_where(table, ip_int)
    IN  {i \in kept :
            \A j \in kept : BigLeq(ipv4_order_key(table, i), ipv4_order_key(table, j))}

\* The dict lookup_ipv4 builds from a fetched row.
ipv4_result(ip_address, row) ==
    [ip_address     |-> ip_address,
     country_code   |-> row.country_code,
     rir            |-> row.rir,
     date_allocated |-> row.date_allocated,
     status         |-> row.status,
     ip_version     |-> 4]

\* lookup_ipv4: the set of values the call may return.
lookup_ipv4(table, ip_address) ==
    LET found == ipv4_select(table, ip_to_int(ip_address))
    IN  IF found = {} THEN {None}
        ELSE {Some(ipv4_result(ip_address, table[i])) : i \in found}

-----------------------------------------------------------------------------
(* lookup_ipv6 *)

RECURSIVE Pow2(_)
Pow2(n) == IF n = 0 THEN 1 ELSE 2 * Pow2(n - 1)

\* The number of bits of the 16-bit group i that a prefix of length p covers.
group_bits(p, i) ==
    LET k == p - 16 * (i - 1)
    IN  IF k < 0 THEN 0 ELSE IF k > 16 THEN 16 ELSE k

\* The address with the bits beyond prefix length p cleared.
network_address(addr, p) ==
    [i \in 1..8 |->
        LET d == Pow2(16 - group_bits(p, i)) IN (addr[i] \div d) * d]

\* ipaddress.IPv6Network(f"{network_str}/{prefix_length}", strict=False)
\* does not raise ValueError.
IPv6Network_ok(network_str, prefix_length) ==
    IPv6Address(network_str) # <<>> /\ prefix_length \in 0..128

\* str(network) of that network, as its address groups and prefix length.
IPv6Network(network_str, prefix_length) ==
    [network_address |-> network_address(IPv6Address(network_str), prefix_length),
     prefixlen       |-> prefix_length]

\* ip_obj in network
in_network(ip_obj, network) ==
    network_address(ip_obj, network.prefixlen) = network.network_address

\* lookup_ipv6: the loop over cursor.fetchall(), rows in rowid order; the
\* first row whose network holds the address is returned.
RECURSIVE lookup_ipv6_from(_, _, _)
lookup_ipv6_from(table, ip_address, i) ==
    IF i > Len(table) THEN None
    ELSE LET row == table[i] IN
         IF /\ IPv6Network_ok(row.network, row.prefix_length)
            /\ in_network(IPv6Address(ip_address),
                          IPv6Network(row.network, row.prefix_length))
         THEN Some([ip_address     |-> ip_address,
                    country_code   |-> row.country_code,
                    rir            |-> row.rir,
                    date_allocated |-> row.date_allocated,
                    status         |-> row.status,
                    ip_version     |-> 6,
                    network        |-> IPv6Network(row.network, row.prefix_length)])
         ELSE lookup_ipv6_from(table, ip_address, i + 1)

lookup_ipv6(table, ip_address) == lookup_ipv6_from(table, ip_address, 1)

-----------------------------------------------------------------------------
(* lookup_ip *)

\* ipaddress.ip_address(text): the version and str() of the address, or
\* version 0 for ValueError.
ip_address_of(text) ==
    IF IPv4Address(text) # <<>> THEN [version |-> 4, str |-> text]
    ELSE IF text = "2001:DB8::1" THEN [version |-> 6, str |-> "2001:db8::1"]
    ELSE IF IPv6Address(text) # <<>> THEN [version |-> 6, str |-> text]
    ELSE [version |-> 0, str |-> ""]

\* An exception leaving a call, in place of a returned value.
Raised(exception) == <<[exception |-> exception]>>

\* lookup_ip without its `except ValueError: return None`.
lookup_ip_uncaught(v4, v6, text) ==
    LET ip_obj == ip_address_of(text) IN
    IF ip_obj.version = 4 THEN lookup_ipv4(v4, ip_obj.str)
    ELSE IF ip_obj.version = 6 THEN {lookup_ipv6(v6, ip_obj.str)}
    ELSE {Raised("ValueError")}

\* lookup_ip: the set of values the call may return on the given tables.
lookup_ip(v4, v6, text) ==
    LET ip_obj == ip_address_of(text) IN
    IF ip_obj.version = 4 THEN lookup_ipv4(v4, ip_obj.str)
    ELSE IF ip_obj.version = 6 THEN {lookup_ipv6(v6, ip_obj.str)}
    ELSE {None}

-----------------------------------------------------------------------------
(* The registries and what their downloads may return *)

\* The keys of self.rir_urls, in dict order.
rir_urls == <<"ARIN", "RIPE", "APNIC", "LACNIC", "AFRINIC">>

Rec(registry, cc, type, start, value, date, status) ==
    Line("", <<registry, cc, type, start, value, date, status>>)

CommentLine == Line("", <<"# comment">>)
BlankLine   == Line("", <<"">>)
SummaryLine == Line("", <<"lacnic", "*", "ipv4", "*", "512", "summary">>)
VersionLine == Line("", <<"2", "lacnic", "20200101", "512", "19700101", "20200101", "-0300">>)

\* The text "" (its split at '\n' is one empty line).
EmptyText == <<BlankLine>>

ArinA == <<CommentLine,
           Rec("arin", "US", "ipv4", "8.8.8.0", "256", "20140328", "allocated"),
           Rec("arin", "us", "ipv4", "8.8.0.0", "65536", "20141350", "allocated")>>

ArinB == <<Rec("arin", "US", "ipv4", "255.255.255.0", "512", "", "allocated"),
           Rec("arin", "US", "ipv4", "8.8.8.0", "0", "", "reserved"),
           Rec("arin", "US", "ipv4", "8.8.8.0", "abc", "", "allocated"),
           Rec("arin", "US", "ipv4", "8.8.0.0", "65536", "", "allocated")>>

RipeA == <<Rec("ripencc", "FR", "ipv6", "2001:db8::", "32", "", "allocated"),
           Rec("ripencc", "FR", "ipv4", "8.8.8.0", "256", "20200101", "assigned")>>

ApnicA == <<Rec("apnic", "12", "ipv4", "1.0.0.0", "256", "", "allocated"),
            Rec("apnic", "JP", "ipv6", "2a01:e00::1", "129", "", "allocated"),
            Rec("apnic", "JP", "ipv6", "not-an-address", "32", "", "allocated"),
            Rec("apnic", "JP", "asn", "173", "1", "20200101", "allocated")>>

LacnicA == <<VersionLine, SummaryLine, BlankLine>>

AfrinicA == <<Rec("afrinic", "zA", "ipv6", "2001:db8::", "48", "", "allocated"),
              Rec("afrinic", "ZA", "ipv4", "bad.address", "256", "", "allocated"),
              Rec("afrinic", "ZA", "ipv4", "8.8.8.0", "-256", "", "allocated")>>

\* download_rir_data: the values the call may return for a registry: None
\* after three failed attempts, or the text of the response.
download_rir_data(rir_name) ==
    {None} \cup
    CASE rir_name = "ARIN"    -> {Some(ArinA), Some(ArinB)}
      [] rir_name = "RIPE"    -> {Some(RipeA)}
      [] rir_name = "APNIC"   -> {Some(ApnicA)}
      [] rir_name = "LACNIC"  -> {Some(LacnicA), Some(EmptyText)}
      [] rir_name = "AFRINIC" -> {Some(AfrinicA)}

\* `if data:` -- neither None nor the empty text.
truthy(data) == data # None /\ data[1] # EmptyText

\* The addresses lookup_ip is called with.
LookupInputs ==
    {"8.8.8.8", "255.255.255.255", "2001:DB8::1", "not-an-ip"}

-----------------------------------------------------------------------------
(* build_table and the lookups running beside it *)

NoLookup == <<>>

NoRepeat == [same |-> FALSE, v4 |-> <<>>, v6 |-> <<>>]

NoMetadata == [last_updated |-> None, total_entries |-> None, successful_rirs |-> None]

InitDb ==
    /\ ipv4_ranges = <<>>
    /\ ipv6_ranges = <<>>
    /\ metadata = NoMetadata
    /\ pc = "idle"
    /\ rir_i = 1
    /\ total_entries = 0
    /\ successful_rirs = <<>>
    /\ downloaded = <<>>
    /\ pub = [v4 |-> <<>>, v6 |-> <<>>, data |-> <<>>]
    /\ repeat = NoRepeat
    /\ lookup = NoLookup

Init ==
    /\ InitDb
    /\ lines = <<>>
    /\ entries = <<>>
    /\ processed = FALSE

\* The rebuild without its DELETE.
delete_nothing(table) == table

\* DELETE FROM ipv4_ranges / DELETE FROM ipv6_ranges: the table afterwards.
delete_from(table) == <<>>

\* build_table up to the commit of the two DELETEs (setup_database creates
\* what is missing and changes no row).
BuildStart ==
    /\ pc \in {"idle", "done"}
    /\ ipv4_ranges' = delete_from(ipv4_ranges)
    /\ ipv6_ranges' = delete_from(ipv6_ranges)
    /\ total_entries' = 0
    /\ successful_rirs' = <<>>
    /\ rir_i' = 1
    /\ downloaded' = <<>>
    /\ repeat' = NoRepeat
    /\ lookup' = NoLookup
    /\ pc' = "loop"
    /\ UNCHANGED <<metadata, pub, lines, entries, processed>>

\* The entries one loop iteration hands to insert_entries_to_db (<<>> when
\* the insert is skipped).
rir_entries(data, rir_name) ==
    IF truthy(data) THEN process_rir_data(data[1], rir_name) ELSE <<>>

\* The append to successful_rirs moved out of the `if data:` / `if entries:`
\* blocks.
rir_succeeded_always(data, rir_name) == TRUE

\* The iteration appends rir_name to successful_rirs.
rir_succeeded(data, rir_name) == rir_entries(data, rir_name) # <<>>

\* total_entries counting the rows inserted instead of the entries accepted.
entries_counted_as_rows(es) == Len(ipv4_entries(es)) + Len(ipv6_entries(es))

\* total_entries += len(entries)
entries_counted(es) == Len(es)

\* One iteration of the loop over self.rir_urls: download, process and, in
\* one transaction, insert.
ProcessRir ==
    /\ pc = "loop"
    /\ \E data \in download_rir_data(rir_urls[rir_i]) :
          LET es   == rir_entries(data, rir_urls[rir_i])
              v4   == ipv4_ranges \o ipv4_entries(es)
              v6   == ipv6_ranges \o ipv6_entries(es)
              dl   == Append(downloaded, data)
              last == rir_i = Len(rir_urls)
          IN  /\ ipv4_ranges' = v4
              /\ ipv6_ranges' = v6
              /\ total_entries' = total_entries + entries_counted(es)
              /\ successful_rirs' = IF rir_succeeded(data, rir_urls[rir_i])
                                    THEN Append(successful_rirs, rir_urls[rir_i])
                                    ELSE successful_rirs
              /\ downloaded' = dl
              /\ rir_i' = IF last THEN rir_i ELSE rir_i + 1
              /\ pc' = IF last THEN "meta_last_updated" ELSE "loop"
              /\ pub' = IF last THEN [v4 |-> v4, v6 |-> v6, data |-> dl] ELSE pub
              /\ repeat' = IF last /\ dl = pub.data
                           THEN [same |-> TRUE, v4 |-> pub.v4, v6 |-> pub.v6]
                           ELSE NoRepeat
    /\ lookup' = NoLookup
    /\ UNCHANGED <<metadata, lines, entries, processed>>

\* update_metadata(key, value): INSERT OR REPLACE, committed.
update_metadata(key, value) == [metadata EXCEPT ![key] = Some(value)]

UpdateLastUpdated ==
    /\ pc = "meta_last_updated"
    /\ metadata' = update_metadata("last_updated", "now")
    /\ pc' = "meta_total_entries"
    /\ lookup' = NoLookup
    /\ UNCHANGED <<ipv4_ranges, ipv6_ranges, rir_i, total_entries, successful_rirs,
                   downloaded, pub, repeat, lines, entries, processed>>

UpdateTotalEntries ==
    /\ pc = "meta_total_entries"
    /\ metadata' = update_metadata("total_entries", total_entries)
    /\ pc' = "meta_successful_rirs"
    /\ lookup' = NoLookup
    /\ UNCHANGED <<ipv4_ranges, ipv6_ranges, rir_i, total_entries, successful_rirs,
                   downloaded, pub, repeat, lines, entries, processed>>

UpdateSuccessfulRirs ==
    /\ pc = "meta_successful_rirs"
    /\ metadata' = update_metadata("successful_rirs", successful_rirs)
    /\ pc' = "done"
    /\ lookup' = NoLookup
    /\ UNCHANGED <<ipv4_ranges, ipv6_ranges, rir_i, total_entries, successful_rirs,
                   downloaded, pub, repeat, lines, entries, processed>>

\* The process running build_table stops before the call returns (shutdown,
\* interrupt, kill): its locals are gone, what it committed stays.
Abandon ==
    /\ pc \in {"loop", "meta_last_updated", "meta_total_entries", "meta_successful_rirs"}
    /\ pc' = "abandoned"
    /\ rir_i' = 1
    /\ total_entries' = 0
    /\ successful_rirs' = <<>>
    /\ downloaded' = <<>>
    /\ lookup' = NoLookup
    /\ UNCHANGED <<ipv4_ranges, ipv6_ranges, metadata, pub, repeat,
                   lines, entries, processed>>

\* A lookup_ip call from another process, reading the committed tables.
LookupOf(inputs) ==
    /\ \E text \in inputs :
          \E result \in lookup_ip(ipv4_ranges, ipv6_ranges, text) :
             lookup' = <<[query |-> text, result |-> result]>>
    /\ UNCHANGED <<ipv4_ranges, ipv6_ranges, metadata, pc, rir_i, total_entries,
                   successful_rirs, downloaded, pub, repeat, lines, entries, processed>>

Lookup == LookupOf(LookupInputs)

Next ==
    \/ BuildStart
    \/ ProcessRir
    \/ UpdateLastUpdated
    \/ UpdateTotalEntries
    \/ UpdateSuccessfulRirs
    \/ Abandon
    \/ Lookup

Spec == Init /\ [][Next]_vars

-----------------------------------------------------------------------------
(* The lookups over tables of any content: a table holds what the builds   *)
(* inserted, and the registries' text is arbitrary, so rows are inserted   *)
(* here one accepted line at a time.                                       *)

\* The most rows the two tables hold together.
MaxRows == 3

ProbeLines ==
    {Rec("arin", "US", "ipv4", "8.8.8.0", "256", "20140328", "allocated"),
     Rec("ripencc", "FR", "ipv4", "8.8.8.0", "256", "", "assigned"),
     Rec("arin", "US", "ipv4", "8.8.0.0", "65536", "", "allocated"),
     Rec("arin", "CA", "ipv4", "8.8.8.0", "512", "", "allocated"),
     Rec("arin", "US", "ipv4", "255.255.255.0", "512", "", "allocated"),
     Rec("arin", "US", "ipv4", "8.8.8.8", "0", "", "reserved"),
     Rec("ripencc", "FR", "ipv6", "2001:db8::", "32", "", "allocated"),
     Rec("afrinic", "ZA", "ipv6", "2001:db8::", "48", "", "allocated"),
     Rec("apnic", "JP", "ipv6", "2a01:e00::1", "32", "", "allocated"),
     Rec("apnic", "JP", "ipv6", "2001:db8::", "129", "", "allocated")}

ProbeInputs ==
    {"8.8.8.8", "8.8.9.9", "8.7.255.255", "255.255.255.255", "1.0.0.0",
     "2001:DB8::1", "2001:db8:0:1::", "2001:db8:1::", "2a01:e00::", "2a02:e00::1",
     "not-an-ip", "", "8.8.8.0/24"}

\* insert_entries_to_db on the entries of one accepted line.
InsertEntries ==
    /\ Len(ipv4_ranges) + Len(ipv6_ranges) < MaxRows
    /\ \E line \in ProbeLines :
          LET es == process_rir_data(<<line>>, "ARIN")
          IN  /\ ipv4_ranges' = ipv4_ranges \o ipv4_entries(es)
              /\ ipv6_ranges' = ipv6_ranges \o ipv6_entries(es)
    /\ lookup' = NoLookup
    /\ UNCHANGED <<metadata, pc, rir_i, total_entries, successful_rirs,
                   downloaded, pub, repeat, lines, entries, processed>>

Probe == LookupOf(ProbeInputs)

NextLookup ==
    \/ InsertEntries
    \/ Probe

SpecLookup == Init /\ [][NextLookup]_vars

-----------------------------------------------------------------------------
(* process_rir_data over batches of any lines *)

\* The most lines of a batch.
MaxBatch == 3

ParseLines ==
    {Rec("arin", "US", "ipv4", "8.8.8.0", "256", "20140328", "allocated"),
     Rec("ripencc", "fr", "ipv6", "2a01:e00::", "32", "20141350", "allocated"),
     Rec("arin", "*", "ipv4", "8.8.8.0", "256", "", "available"),
     Rec("arin", "USA", "ipv4", "8.8.8.0", "256", "", "allocated"),
     Rec("arin", "US", "asn", "173", "1", "20200101", "allocated"),
     Rec("#arin", "US", "ipv4", "8.8.0.0", "65536", "", "allocated"),
     Line(" ", <<"#arin", "US", "ipv4", "1.0.0.0", "256", "", "allocated">>),
     Line(" ", <<"# comment">>),
     Line(" ", <<"">>),
     CommentLine,
     BlankLine,
     SummaryLine}

BoundedSeq(S, n) == UNION {[1..k -> S] : k \in 0..n}

InitParse ==
    /\ InitDb
    /\ lines \in BoundedSeq(ParseLines, MaxBatch)
    /\ entries = <<>>
    /\ processed = FALSE

\* A call process_rir_data(data, rir_name).
ProcessBatch ==
    /\ ~processed
    /\ entries' = process_rir_data(lines, "ARIN")
    /\ processed' = TRUE
    /\ UNCHANGED <<ipv4_ranges, ipv6_ranges, metadata, pc, rir_i, total_entries,
                   successful_rirs, downloaded, pub, repeat, lookup, lines>>

NextParse == ProcessBatch

SpecParse == InitParse /\ [][NextParse]_vars

-----------------------------------------------------------------------------
(* Properties *)

BuildRunning ==
    pc \in {"loop", "meta_last_updated", "meta_total_entries", "meta_successful_rirs"}

LoopComplete ==
    pc \in {"meta_last_updated", "meta_total_entries", "meta_successful_rirs", "done"}

\* C1: a lookup served at any point, a rebuild in progress included, reads
\* tables that are a complete published set: those of the last build whose
\* loop over the registries completed (the empty tables before the first
\* build), never a cleared or partly refilled table.
C1_LookupSeesPublishedIndex ==
    lookup # NoLookup => (ipv4_ranges = pub.v4 /\ ipv6_ranges = pub.v6)

\* A lookup is served during a rebuild while a non-empty index is published.
C1_LookupDuringRebuild ==
    /\ lookup # NoLookup
    /\ pc = "loop"
    /\ pub.v4 # <<>>
    /\ pub.v6 # <<>>

\* C2: once a build is abandoned before it completes, every lookup returns
\* what it returns on the published index (the one of the last completed
\* build).
C2_AbandonKeepsPublished ==
    pc = "abandoned" =>
        \A text \in LookupInputs :
            lookup_ip(ipv4_ranges, ipv6_ranges, text) = lookup_ip(pub.v4, pub.v6, text)

\* A build is abandoned while a non-empty index is published.
C2_AbandonedRebuild ==
    /\ pc = "abandoned"
    /\ pub.v4 # <<>>
    /\ pub.v6 # <<>>

Contains4(row, a) == BigLeq(row.start_ip, a) /\ BigLeq(a, row.end_ip)

Width4(row) == BigSub(row.end_ip, row.start_ip)

\* The linear-scan reference: Some(the least width among the rows from i on
\* that hold address a, and best), or None when best is None and no row
\* holds a.
RECURSIVE NarrowestFrom(_, _, _, _)
NarrowestFrom(table, a, i, best) ==
    IF i > Len(table) THEN best
    ELSE IF Contains4(table[i], a)
              /\ (best = None \/ BigLt(Width4(table[i]), best[1]))
         THEN NarrowestFrom(table, a, i + 1, Some(Width4(table[i])))
         ELSE NarrowestFrom(table, a, i + 1, best)

\* What lookup_ipv4 returned for the query agrees with the linear scan.
AgreesWithLinearScan(table, text, result) ==
    LET a    == ip_to_int(text)
        best == NarrowestFrom(table, a, 1, None)
    IN  IF best = None THEN result = None
        ELSE /\ result # None
             /\ \E i \in 1..Len(table) :
                   /\ Contains4(table[i], a)
                   /\ Width4(table[i]) = best[1]
                   /\ result[1] = ipv4_result(text, table[i])

IsIPv4Query(text) == ip_address_of(text).version = 4

IsIPv6Query(text) == ip_address_of(text).version = 6

\* C3: for every content of the IPv4 table and every IPv4 address, what
\* lookup_ipv4 returns agrees with a linear scan: a row of least width
\* (end - start) among the rows that hold the address, and 'not found'
\* exactly when no row holds it.
C3_LookupIPv4MatchesLinearScan ==
    /\ \A text \in {t \in ProbeInputs : IsIPv4Query(t)} :
          \A result \in lookup_ipv4(ipv4_ranges, text) :
             AgreesWithLinearScan(ipv4_ranges, text, result)
    /\ (lookup # NoLookup /\ IsIPv4Query(lookup[1].query)) =>
          AgreesWithLinearScan(ipv4_ranges, lookup[1].query, lookup[1].result)

\* A lookup returned a row although a wider row holding the address was
\* inserted before it.
C3_NarrowestOfNested ==
    /\ lookup # NoLookup
    /\ IsIPv4Query(lookup[1].query)
    /\ lookup[1].result # None
    /\ Len(ipv4_ranges) >= 2
    /\ Contains4(ipv4_ranges[1], ip_to_int(lookup[1].query))
    /\ Contains4(ipv4_ranges[2], ip_to_int(lookup[1].query))
    /\ BigLt(Width4(ipv4_ranges[2]), Width4(ipv4_ranges[1]))

\* The rows of the IPv6 table whose prefix holds the address.
Containing6(table, a) ==
    {i \in 1..Len(table) :
        /\ IPv6Network_ok(table[i].network, table[i].prefix_length)
        /\ in_network(a, IPv6Network(table[i].network, table[i].prefix_length))}

\* C4: a lookup of an IPv6 address returns the entry of the longest prefix
\* among the stored prefixes that hold the address, whatever the order of
\* insertion, and 'not found' when none holds it.
C4_LookupIPv6LongestPrefix ==
    (lookup # NoLookup /\ IsIPv6Query(lookup[1].query)) =>
        LET a      == IPv6Address(ip_address_of(lookup[1].query).str)
            among  == Containing6(ipv6_ranges, a)
            result == lookup[1].result
        IN  IF among = {} THEN result = None
            ELSE /\ result # None
                 /\ \E i \in among :
                       /\ \A j \in among :
                             ipv6_ranges[j].prefix_length <= ipv6_ranges[i].prefix_length
                       /\ result[1].country_code = ipv6_ranges[i].country_code
                       /\ result[1].network.prefixlen = ipv6_ranges[i].prefix_length

\* C5: after any build no stored IPv4 range ends beyond 2^32 - 1: a record
\* whose start + count - 1 exceeds the address space is dropped.
C5_NoRangeBeyondAddressSpace ==
    \A i \in 1..Len(ipv4_ranges) : BigLeq(ipv4_ranges[i].end_ip, MaxIPv4)

\* C6: every stored IPv4 range has start <= end: a record whose count is
\* zero, negative or not a number is dropped.
C6_StoredRangesNonEmpty ==
    \A i \in 1..Len(ipv4_ranges) :
        BigLeq(ipv4_ranges[i].start_ip, ipv4_ranges[i].end_ip)

\* download_rir_data returned no data: None, or a text that is empty.
NoData(data) == data = None \/ data = Some(EmptyText)

\* The IPv4 rows of the registries from i on that returned data.
RECURSIVE AcceptedIPv4(_, _)
AcceptedIPv4(dl, i) ==
    IF i > Len(dl) THEN <<>>
    ELSE (IF NoData(dl[i]) THEN <<>>
          ELSE ipv4_entries(process_rir_data(dl[i][1], rir_urls[i])))
         \o AcceptedIPv4(dl, i + 1)

\* The IPv6 rows of the registries from i on that returned data.
RECURSIVE AcceptedIPv6(_, _)
AcceptedIPv6(dl, i) ==
    IF i > Len(dl) THEN <<>>
    ELSE (IF NoData(dl[i]) THEN <<>>
          ELSE ipv6_entries(process_rir_data(dl[i][1], rir_urls[i])))
         \o AcceptedIPv6(dl, i + 1)

Elements(seq) == {seq[i] : i \in 1..Len(seq)}

\* C7: whichever registries return no data, all of them included, the build
\* is never stuck before its end; once its loop is over the tables hold
\* exactly the rows of the registries that returned data, in registry
\* order, and no registry without data is among the successful ones, in the
\* local list and in the recorded metadata.
C7_UnavailableRegistriesSkipped ==
    /\ BuildRunning =>
          ENABLED (ProcessRir \/ UpdateLastUpdated \/ UpdateTotalEntries
                   \/ UpdateSuccessfulRirs)
    /\ LoopComplete =>
          /\ Len(downloaded) = Len(rir_urls)
          /\ ipv4_ranges = AcceptedIPv4(downloaded, 1)
          /\ ipv6_ranges = AcceptedIPv6(downloaded, 1)
          /\ \A i \in 1..Len(downloaded) :
                NoData(downloaded[i]) => rir_urls[i] \notin Elements(successful_rirs)
    /\ pc = "done" => metadata.successful_rirs = Some(successful_rirs)

\* A build ended with some registries unavailable and rows of the others
\* stored.
C7_BuildWithUnavailableRegistries ==
    /\ pc = "done"
    /\ \E i \in 1..Len(downloaded) : downloaded[i] = None
    /\ \E i \in 1..Len(downloaded) : downloaded[i] = Some(EmptyText)
    /\ successful_rirs # <<>>
    /\ ipv4_ranges # <<>>
    /\ ipv6_ranges # <<>>

\* A build ended with every registry unavailable.
BuildWithNoRegistry ==
    /\ pc = "done"
    /\ \A i \in 1..Len(downloaded) : downloaded[i] = None
    /\ ipv4_ranges = <<>>
    /\ metadata.successful_rirs = Some(<<>>)

\* The strings of two upper-case letters.
Letters ==
    {"A", "B", "C", "D", "E", "F", "G", "H", "I", "J", "K", "L", "M",
     "N", "O", "P", "Q", "R", "S", "T", "U", "V", "W", "X", "Y", "Z"}

TwoUpperLetters == {a \o b : a \in Letters, b \in Letters}

\* C9: after any sequence of builds every row of either table has a country
\* code of exactly two upper-case letters.
C9_StoredCountryCodesValid ==
    /\ \A i \in 1..Len(ipv4_ranges) : ipv4_ranges[i].country_code \in TwoUpperLetters
    /\ \A i \in 1..Len(ipv6_ranges) : ipv6_ranges[i].country_code \in TwoUpperLetters

\* C10: when a build completes on the registry data the previous completed
\* build had, both tables have the row counts they had after that build and
\* every lookup returns what it returned then.
C10_RebuildIdempotent ==
    repeat.same =>
        /\ Len(ipv4_ranges) = Len(repeat.v4)
        /\ Len(ipv6_ranges) = Len(repeat.v6)
        /\ \A text \in LookupInputs \cup ProbeInputs :
              lookup_ip(ipv4_ranges, ipv6_ranges, text)
                  = lookup_ip(repeat.v4, repeat.v6, text)

\* A second build completed on the same, non-empty data.
C10_SecondBuildSameData ==
    /\ repeat.same
    /\ pc = "done"
    /\ repeat.v4 # <<>>
    /\ repeat.v6 # <<>>

\* The claim's rejection conditions, one line at a time.
Rejected(line) ==
    \/ line.fields = <<"">>
    \/ startswith_hash(line.fields[1])
    \/ Len(line.fields) < 7
    \/ LET cc == line.fields[2]
           type_field == line.fields[3]
       IN  cc = "*" \/ Len(cc) # 2 \/ type_field \notin {"ipv4", "ipv6"}

NotRejected(line) == ~Rejected(line)

\* C8: process_rir_data accepts from a batch the entries, in number and in
\* order, that it accepts from the batch without its blank lines, its lines
\* whose first non-blank character is '#', its lines of fewer than 7
\* fields, and its lines with a bad country code or type.
C8_RejectedLinesDoNotCount ==
    processed => entries = process_rir_data(SelectSeq(lines, NotRejected), "ARIN")

\* A batch with rejected and accepted lines was processed.
C8_MixedBatchProcessed ==
    /\ processed
    /\ entries # <<>>
    /\ \E i \in 1..Len(lines) : Rejected(lines[i])

\* C11: every row of the IPv6 table has an address that parses and a prefix
\* length within 0..128, and its stored network has no bit set beyond the
\* prefix length: a record with an unparseable address or a prefix length
\* out of range is dropped, and host bits are cleared before storage.
C11_StoredIPv6NetworksCanonical ==
    \A i \in 1..Len(ipv6_ranges) :
        LET row == ipv6_ranges[i] IN
        /\ IPv6Address(row.network) # <<>>
        /\ row.prefix_length \in 0..128
        /\ network_address(IPv6Address(row.network), row.prefix_length)
              = IPv6Address(row.network)

\* An accepted IPv6 record went through insert_entries_to_db.
C11_IPv6RecordInserted == ipv6_ranges # <<>>

\* The text parses neither as an IPv4 nor as an IPv6 address.
Unparseable(text) == IPv4Address(text) = <<>> /\ IPv6Address(text) = <<>>

\* C12: a lookup_ip call whose query parses neither as an IPv4 nor as an
\* IPv6 address returns None (no exception leaves it) and changes no row of
\* the tables.
C12_UnparseableQueryNotFound ==
    [][(lookup' # NoLookup /\ Unparseable(lookup'[1].query)) =>
          /\ lookup'[1].result = None
          /\ UNCHANGED <<ipv4_ranges, ipv6_ranges, metadata>>]_vars

\* An unparseable query was looked up against non-empty tables.
C12_UnparseableLookedUp ==
    /\ lookup # NoLookup
    /\ Unparseable(lookup[1].query)
    /\ ipv4_ranges # <<>>
    /\ ipv6_ranges # <<>>

\* The number of records the normalizer accepted from the registries from
\* i on that returned data.
RECURSIVE AcceptedCount(_, _)
AcceptedCount(dl, i) ==
    IF i > Len(dl) THEN 0
    ELSE (IF NoData(dl[i]) THEN 0
          ELSE Len(process_rir_data(dl[i][1], rir_urls[i])))
         + AcceptedCount(dl, i + 1)

\* The range conversion drops the accepted entry: its value is no integer,
\* or it is an IPv4 entry whose start is no dotted quad.
ConversionDrops(entry) ==
    \/ ~int(entry.value).ok
    \/ (entry.type = "ipv4" /\ IPv4Address(entry.start) = <<>>)

\* Some accepted record of a registry that returned data is dropped during
\* range conversion.
SomeAcceptedDropped(dl) ==
    \E i \in 1..Len(dl) :
        /\ ~NoData(dl[i])
        /\ LET es == process_rir_data(dl[i][1], rir_urls[i])
           IN  \E k \in 1..Len(es) : ConversionDrops(es[k])

\* C13: after build_table has completed, the recorded total_entries is the
\* number of records the normalizer accepted from the registries that
\* returned data; the two tables together hold at most that many rows, and
\* fewer when an accepted record was dropped during range conversion.
C13_TotalEntriesCountsAccepted ==
    pc = "done" =>
        LET accepted == AcceptedCount(downloaded, 1)
            stored   == Len(ipv4_ranges) + Len(ipv6_ranges)
        IN  /\ metadata.total_entries = Some(accepted)
            /\ stored <= accepted
            /\ SomeAcceptedDropped(downloaded) => stored < accepted

\* A build completed that stored rows and dropped an accepted record.
C13_BuildDroppedAccepted ==
    /\ pc = "done"
    /\ SomeAcceptedDropped(downloaded)
    /\ ipv4_ranges # <<>>
    /\ ipv6_ranges # <<>>

=============================================================================
